---- MODULE Spec2Model ----
(***************************************************************************)
(* Threshold / SLA classification engine of flowCentral.py.                *)
(*                                                                         *)
(* Units.  Times are minutes since 1 January 00:00 of the year AnoInicial   *)
(* in America/Sao_Paulo (no daylight saving), the zone of the machine too;  *)
(* AnoInicial and the year after it are common years.  Lead times ("horas") *)
(* are kept in minutes (2.25 h = 135).                                      *)
(* Utilization values and band bounds are whole percents.  WIP multipliers *)
(* are kept in tenths (1.8 = 18); for integer references and WIP the       *)
(* comparison wip <= ref*1.8 is the comparison 10*wip <= ref*18.           *)
(***************************************************************************)
EXTENDS Integers, Sequences, FiniteSets, TLC

VARIABLES now, trb, wip_tempos, call, memo,
          pc, driver, fc, wip, lagrange, override, shown

vars == <<now, trb, wip_tempos, call, memo, pc, driver, fc, wip, lagrange, override, shown>>

(***************************************************************************)
(* Bounds of the model                                                     *)
(***************************************************************************)
\* most columns of a scanned table
MaxCols == 2
\* most columns of a table of the main flow, where two tables are scanned
\* one after the other
MaxRunCols == 1
\* largest band bound handed to check_status on its own
MaxBand == 3
\* largest small WIP count handed to validar_wip
MaxWip == 26

\* the minutes of a common year
MinutosAno == 365 * 24 * 60

\* the clock values the model visits. From 01:00 to 06:40 of 1 January of
\* AnoInicial: for every facility one value at least before, between and
\* after the window starts its lead times give the deadline 06:00 (03:00 is
\* 3 h before the deadline, 05:50 is 10 minutes before it, 06:40 is after
\* it). And 00:00 of 1 January of the year after, when datetime.now().year
\* has just changed
NowSet == {60, 180, 230, 260, 350, 400, MinutosAno}

\* utilization values found in a table cell: below every band, inside the
\* band 87-90 (EXPR of POA1 and REC1), inside the band 90-95, above it, and
\* at the top of the highest band
UtilValues == {40, 88, 92, 96, 200}

\* lead times handed to dentro_sla on its own: those of the catalogs and 0
LeadTimes == {0, 60, 90, 105, 120, 135, 180, 210, 240}

\* reference counts (Lagrange / override) and WIP counts
RefValues == {-1, 0, 5, 10, 500}

\* processing rates around the reference 100, and the references compared to
MaxDesvio == 6
ProcValues == ((100 - MaxDesvio)..(100 + MaxDesvio)) \cup {0, 10, 12, 120}
ProcRefs == {-1, 0, 10, 100}

\* buffer percentages and bounds; a text that is no number is None below
MaxBuf == 3
BufValues == (0..MaxBuf) \cup {5, 79, 80, 85, 90, 91}
BufMins == {0, 80}
BufMaxs == {0, 2, 90}

WipValues == (0..MaxWip) \cup {1000}

(***************************************************************************)
(* Facility Threshold Catalog                                              *)
(***************************************************************************)
fcs_permitidos ==
    {"BSB1", "CNF1", "FOR2", "GIG1", "GRU8", "POA1", "REC1", "REC3",
     "GIG2", "XCV9", "GRU5", "GRU9"}

fcs_autoflow_MZ == {"GRU5"}

fcs_autoflow_MS == {"GRU9", "GIG1"}

Faixa(f, h) == [faixa |-> f, horas |-> h]

faixas_expedite ==
    [f \in fcs_permitidos \ {"GIG2"} |->
        CASE f = "BSB1" -> Faixa(<<175, 180>>, 60)
          [] f = "CNF1" -> Faixa(<<195, 200>>, 60)
          [] f = "FOR2" -> Faixa(<<185, 190>>, 60)
          [] f = "GIG1" -> Faixa(<<195, 200>>, 90)
          [] f = "GRU5" -> Faixa(<<185, 190>>, 90)
          [] f = "GRU8" -> Faixa(<<195, 200>>, 60)
          [] f = "GRU9" -> Faixa(<<195, 200>>, 90)
          [] f = "POA1" -> Faixa(<<87, 90>>, 90)
          [] f = "REC1" -> Faixa(<<87, 90>>, 60)
          [] f = "REC3" -> Faixa(<<195, 200>>, 90)
          [] f = "XCV9" -> Faixa(<<195, 200>>, 60)]

faixas_priority ==
    [f \in fcs_permitidos \ {"GIG2"} |->
        CASE f = "BSB1" -> Faixa(<<90, 95>>, 105)
          [] f = "CNF1" -> Faixa(<<90, 95>>, 180)
          [] f = "FOR2" -> Faixa(<<90, 95>>, 120)
          [] f = "GIG1" -> Faixa(<<90, 95>>, 120)
          [] f = "GRU5" -> Faixa(<<90, 95>>, 120)
          [] f = "GRU8" -> Faixa(<<90, 95>>, 120)
          [] f = "GRU9" -> Faixa(<<90, 95>>, 210)
          [] f = "POA1" -> Faixa(<<90, 95>>, 120)
          [] f = "REC1" -> Faixa(<<90, 95>>, 120)
          [] f = "REC3" -> Faixa(<<90, 95>>, 180)
          [] f = "XCV9" -> Faixa(<<90, 95>>, 120)]

faixas_default ==
    [f \in fcs_permitidos |->
        CASE f = "BSB1" -> Faixa(<<90, 95>>, 105)
          [] f = "CNF1" -> Faixa(<<90, 95>>, 180)
          [] f = "FOR2" -> Faixa(<<90, 95>>, 120)
          [] f = "GIG1" -> Faixa(<<90, 95>>, 120)
          [] f = "GIG2" -> Faixa(<<87, 90>>, 240)
          [] f = "GRU5" -> Faixa(<<90, 95>>, 135)
          [] f = "GRU8" -> Faixa(<<90, 95>>, 120)
          [] f = "GRU9" -> Faixa(<<90, 95>>, 210)
          [] f = "POA1" -> Faixa(<<90, 95>>, 120)
          [] f = "REC1" -> Faixa(<<87, 90>>, 120)
          [] f = "REC3" -> Faixa(<<90, 95>>, 180)
          [] f = "XCV9" -> Faixa(<<90, 95>>, 180)]

\* TRB.__init__: the three catalogs of a freshly built TRB object
TRB == [faixas_expedite |-> faixas_expedite,
        faixas_priority |-> faixas_priority,
        faixas_default  |-> faixas_default]

Tempos(mn, mx) == [minima |-> mn, maxima |-> mx]

\* module-level table wip_tempos, multipliers in tenths
WipTempos ==
    [f \in fcs_permitidos \ {"GIG2"} |->
        CASE f = "GRU5" -> Tempos(18, 22)
          [] f = "CNF1" -> Tempos(15, 22)
          [] f = "GIG1" -> Tempos(18, 22)
          [] f = "FOR2" -> Tempos(15, 18)
          [] f = "GRU8" -> Tempos(10, 12)
          [] f = "POA1" -> Tempos(15, 20)
          [] f = "REC1" -> Tempos(15, 25)
          [] f = "REC3" -> Tempos(18, 22)
          [] f = "BSB1" -> Tempos(15, 18)
          [] f = "GRU9" -> Tempos(18, 22)
          [] f = "XCV9" -> Tempos(15, 18)]

(***************************************************************************)
(* Inputs: deadline texts and table cells                                  *)
(***************************************************************************)
\* A header cell (row 0 of the table).  wf: the text has the shape
\* "<int>/<int> <int>:<int>"; pad_md: the month and the day are each written
\* with two digits, so that the first five characters are "mm/dd"; pad_hm:
\* the hour and the minute are each written with two digits.
Hdr(wf, pad_md, pad_hm, mo, dd, hh, mi) ==
    [wf |-> wf, pad_md |-> pad_md, pad_hm |-> pad_hm,
     mo |-> mo, dd |-> dd, hh |-> hh, mi |-> mi]

H0600 == Hdr(TRUE, TRUE, TRUE, 1, 1, 6, 0)        \* "01/01 06:00"
H600 == Hdr(TRUE, TRUE, FALSE, 1, 1, 6, 0)        \* "01/01 6:00"
HUnpadded == Hdr(TRUE, FALSE, FALSE, 1, 1, 6, 0)  \* "1/1 6:00"
HFeb29 == Hdr(TRUE, TRUE, TRUE, 2, 29, 10, 0)     \* "02/29 10:00"
HMonth13 == Hdr(TRUE, TRUE, TRUE, 13, 1, 6, 0)    \* "13/01 06:00"
HHour24 == Hdr(TRUE, TRUE, TRUE, 1, 1, 24, 0)     \* "01/01 24:00"
HText == Hdr(FALSE, FALSE, FALSE, 0, 0, 0, 0)     \* "Total"

\* deadline texts handed to dentro_sla on its own
CptTexts == {H0600, H600, HUnpadded, HFeb29, HMonth13, HHour24, HText}

\* deadline texts found in the header row of a scanned table
Headers == {H0600, H600, HUnpadded, HText}

\* A utilization cell (row 9 of the table): "num", a number, possibly
\* followed by "%"; "inf", the marker of an infinite utilization; "nan", an
\* empty cell, which pandas holds as NaN; "text", any other text.
Cell(k, v) == [k |-> k, v |-> v]

Cells == {Cell("num", v) : v \in UtilValues} \cup {Cell("inf", 0), Cell("text", 0)}

\* the columns of the scanned tables: every cell under the deadline 06:00,
\* and the value 96 under each of the other header texts
Columns == {[cpt |-> H0600, util |-> c] : c \in Cells}
           \cup {[cpt |-> h, util |-> Cell("num", 96)] : h \in Headers}

\* the columns that tables of several columns are made of: a value above
\* the bands, one inside them, a header that is no deadline, a cell that is
\* no number and the infinite marker
CoreColumns ==
    {[cpt |-> H0600, util |-> Cell("num", 96)], [cpt |-> H0600, util |-> Cell("num", 92)],
     [cpt |-> HText, util |-> Cell("num", 96)], [cpt |-> H0600, util |-> Cell("text", 0)],
     [cpt |-> H0600, util |-> Cell("inf", 0)]}

RECURSIVE SeqsUpTo(_, _)
SeqsUpTo(S, n) ==
    IF n = 0 THEN {<<>>}
    ELSE LET shorter == SeqsUpTo(S, n - 1)
         IN  shorter \cup {Append(t, x) : t \in {u \in shorter : Len(u) = n - 1}, x \in S}

\* the tables handed to the scanner: of a table of at least ten rows, the
\* columns from the third on, each with its header (row 0) and its
\* utilization cell (row 9)
Tables == SeqsUpTo(CoreColumns, MaxCols) \cup {<<c>> : c \in Columns}

(***************************************************************************)
(* TRB.dentro_sla                                                          *)
(***************************************************************************)
\* days of each month of the year 1900, the year strptime assumes
DaysInMonth(mo) ==
    CASE mo = 2 -> 28
      [] mo \in {4, 6, 9, 11} -> 30
      [] OTHER -> 31

DaysBefore(mo) ==
    CASE mo = 1 -> 0 [] mo = 2 -> 31 [] mo = 3 -> 59 [] mo = 4 -> 90
      [] mo = 5 -> 120 [] mo = 6 -> 151 [] mo = 7 -> 181 [] mo = 8 -> 212
      [] mo = 9 -> 243 [] mo = 10 -> 273 [] mo = 11 -> 304 [] OTHER -> 334

\* datetime.strptime(cpt_str.strip(), "%m/%d %H:%M") returns a value
StrptimeOk(h) ==
    /\ h.wf
    /\ h.mo \in 1..12
    /\ h.dd \in 1..DaysInMonth(h.mo)
    /\ h.hh \in 0..23
    /\ h.mi \in 0..59

\* the year of the clock value 0
AnoInicial == 2026

\* datetime.now().year, read when the clock stands at t
Ano(t) == AnoInicial + (t \div MinutosAno)

\* the years the clock of the model passes through
Anos == {Ano(t) : t \in NowSet}

Bissexto(ano) == (ano % 4 = 0 /\ ano % 100 /= 0) \/ ano % 400 = 0

\* datetime.strptime(texto, "%m/%d/%Y %H:%M") returns a value, the year ano
\* having been written into the text
StrptimeAnoOk(h, ano) ==
    /\ h.wf
    /\ h.mo \in 1..12
    /\ h.dd \in 1..(IF h.mo = 2 /\ Bissexto(ano) THEN 29 ELSE DaysInMonth(h.mo))
    /\ h.hh \in 0..23
    /\ h.mi \in 0..59

\* hora_cpt after replace(year = ano, tzinfo = Sao Paulo), ano being what
\* datetime.now().year gave (a common year)
HoraCpt(h, ano) ==
    (ano - AnoInicial) * MinutosAno
        + ((DaysBefore(h.mo) + h.dd - 1) * 24 + h.hh) * 60 + h.mi

\* variants of dentro_sla: the comparison turned round; a parse failure
\* answered True
dentro_sla_ge(cpt_str, horas_sla, ano, agora) ==
    IF ~StrptimeOk(cpt_str) THEN FALSE
    ELSE agora >= HoraCpt(cpt_str, ano) - horas_sla

dentro_sla_open(cpt_str, horas_sla, ano, agora) ==
    IF ~StrptimeOk(cpt_str) THEN TRUE
    ELSE agora < HoraCpt(cpt_str, ano) - horas_sla

\* dentro_sla with its two readings of the clock: ano is datetime.now().year
\* of line 304, agora is datetime.now(tz) of line 305; neither is read when
\* strptime raises
dentro_sla(cpt_str, horas_sla, ano, agora) ==
    IF ~StrptimeOk(cpt_str) THEN FALSE
    ELSE LET hora_cpt == HoraCpt(cpt_str, ano)
             inicio_janela == hora_cpt - horas_sla
         IN  agora < inicio_janela

(***************************************************************************)
(* check_status                                                            *)
(***************************************************************************)
\* variant of check_status: the upper bound itself not yet active
check_status_gt(valor, faixa) ==
    IF valor > faixa[2] THEN "ATIVO"
    ELSE IF valor <= faixa[1] THEN "INATIVO"
    ELSE "ATENCAO"

check_status(valor, faixa) ==
    LET min_val == faixa[1]
        max_val == faixa[2]
    IN  IF valor >= max_val THEN "ATIVO"
        ELSE IF valor <= min_val THEN "INATIVO"
        ELSE "ATENCAO"

(***************************************************************************)
(* verificar_todos                                                         *)
(***************************************************************************)
\* dict.get(fc, {"faixa": "0-0", "horas": 0})
GetFaixa(catalogo, f) ==
    IF f \in DOMAIN catalogo THEN catalogo[f] ELSE Faixa(<<0, 0>>, 0)

\* variant of CatalogoAposGet: the lookup done with dict.setdefault, which
\* stores the default under a code the catalog lacks
CatalogoAposSetdefault(catalogo, f) ==
    IF f \in DOMAIN catalogo THEN catalogo
    ELSE [g \in DOMAIN catalogo \cup {f} |->
             IF g = f THEN Faixa(<<0, 0>>, 0) ELSE catalogo[g]]

\* the catalog after dict.get(fc, ...): get stores nothing
CatalogoAposGet(catalogo, f) == catalogo

\* .astype(str).str.replace("%", "").str.strip().replace({"∞": "NaN"})
\* .astype(float) on one cell: a number, NaN, or ValueError
ToFloat(c) ==
    CASE c.k = "num" -> [raises |-> FALSE, nan |-> FALSE, v |-> c.v]
      [] c.k \in {"inf", "nan"} -> [raises |-> FALSE, nan |-> TRUE, v |-> 0]
      [] OTHER -> [raises |-> TRUE, nan |-> FALSE, v |-> 0]

\* the label of the deadline: strftime("%d/%m/%Y %H:%M"), every field of
\* two digits, when the text with "/<year>" put in after its fifth character
\* parses as "%m/%d/%Y %H:%M" (the first five characters must be "mm/dd";
\* %H and %M take one digit or two); the raw text otherwise.
HorarioFmt(h, ano_atual) ==
    IF h.pad_md /\ StrptimeAnoOk(h, ano_atual)
    THEN [fmt |-> "d/m/Y H:M", txt |-> <<h.dd, h.mo, ano_atual, h.hh, h.mi>>]
    ELSE [fmt |-> "raw", txt |-> h]

\* variant of Mensagem: attention surfaced beside a suppressed category
Mensagem_sem_filtro(status_default, status_pri, status_expr) ==
    LET todos == <<status_default, status_pri, status_expr>>
        nomes == <<"DEFAULT", "PRI", "EXPR">>
        ativas == {i \in 1..3 : todos[i] = "ATIVO"}
    IN  IF ativas /= {}
        THEN [tipo |-> "TRB ATIVO",
              faixas |-> SelectSeq(nomes, LAMBDA n : \E i \in ativas : nomes[i] = n)]
        ELSE IF \E i \in 1..3 : todos[i] = "ATENCAO"
        THEN [tipo |-> "ATENCAO", faixas |-> <<>>]
        ELSE [tipo |-> "nenhuma", faixas |-> <<>>]

\* the if / elif / else that decides the message of a column
Mensagem(status_default, status_pri, status_expr) ==
    LET todos == <<status_default, status_pri, status_expr>>
        nomes == <<"DEFAULT", "PRI", "EXPR">>
        ativas == {i \in 1..3 : todos[i] = "ATIVO"}
        faixas_ativas == SelectSeq(nomes, LAMBDA n : \E i \in ativas : nomes[i] = n)
    IN  IF ativas /= {}
        THEN [tipo |-> "TRB ATIVO", faixas |-> faixas_ativas]
        ELSE IF (\E i \in 1..3 : todos[i] = "ATENCAO")
                /\ (\A i \in 1..3 : todos[i] /= "FORA_SLA")
        THEN [tipo |-> "ATENCAO", faixas |-> <<>>]
        ELSE [tipo |-> "nenhuma", faixas |-> <<>>]

\* The clock during a scan. Each dentro_sla call whose deadline text parses
\* reads datetime.now(tz) for itself (line 305), and the clock may have moved
\* before any reading: the readings are any values that never decrease.
\* Relogios(agora, n): the sequences of n readings of a clock that stood at
\* agora before the first
RECURSIVE Relogios(_, _)
Relogios(agora, n) ==
    IF n = 0 THEN {<<>>}
    ELSE UNION {{<<u>> \o r : r \in Relogios(u, n - 1)} :
                   u \in {v \in NowSet : v >= agora}}

\* the years datetime.now().year can give when read between the clock
\* values antes and depois
AnosEntre(antes, depois) == Ano(antes)..Ano(depois)

\* the year read by one dentro_sla call that reads the clock as relogio (one
\* reading, or none when strptime raises), the clock having stood at antes
AnosDentroSla(antes, relogio) ==
    IF relogio = <<>> THEN {<<>>}
    ELSE {<<y>> : y \in AnosEntre(antes, relogio[1])}

\* the four years read in one turn of the loop whose three dentro_sla calls
\* read the clock as leit, the clock having stood at antes before the turn:
\* ano_atual of line 484, then the year of line 304 in each call
AnosColuna(antes, leit) ==
    {ys \in AnosEntre(antes, leit[1]) \X AnosEntre(antes, leit[1])
              \X AnosEntre(leit[1], leit[2]) \X AnosEntre(leit[2], leit[3]) :
        ys[1] <= ys[2]}

\* the years read during the turns of the loop that read the clock as
\* relogio (three readings a turn), four years a turn
RECURSIVE AnosDe(_, _)
AnosDe(antes, relogio) ==
    IF relogio = <<>> THEN {<<>>}
    ELSE {ys \o r : ys \in AnosColuna(antes, SubSeq(relogio, 1, 3)),
                    r \in AnosDe(relogio[3], SubSeq(relogio, 4, Len(relogio)))}

\* the clock after the readings
FimRelogio(agora, relogio) ==
    IF relogio = <<>> THEN agora ELSE relogio[Len(relogio)]

\* the column reaches the clock: its cell is a number (the loop does not
\* pass it over) and its deadline text parses (dentro_sla gets past strptime)
Decide(col) == ~ToFloat(col.util).nan /\ StrptimeOk(col.cpt)

\* the number of readings the loop takes for the columns 1..n of df: three
\* for each column that reaches the clock
RECURSIVE NLeit(_, _)
NLeit(df, n) ==
    IF n = 0 THEN 0
    ELSE NLeit(df, n - 1) + (IF Decide(df[n]) THEN 3 ELSE 0)

\* the conversion of the utilization row raises
Levanta(df) == \E i \in 1..Len(df) : ToFloat(df[i].util).raises

\* the number of readings verificar_todos takes for the table df: none when
\* the conversion raises, before the loop
NLeitTabela(df) == IF Levanta(df) THEN 0 ELSE NLeit(df, Len(df))

\* the three readings taken for column i of df (none for a column that does
\* not reach the clock)
Leituras(relogio, df, i) ==
    IF Decide(df[i])
    THEN SubSeq(relogio, NLeit(df, i - 1) + 1, NLeit(df, i - 1) + 3)
    ELSE <<>>

\* the four years read for column i of df (none kept for a column that does
\* not reach the clock)
AnosLidos(anos, df, i) ==
    IF Decide(df[i])
    THEN LET antes == 4 * (NLeit(df, i - 1) \div 3)
         IN  SubSeq(anos, antes + 1, antes + 4)
    ELSE <<>>

\* one turn of the loop over the columns, for a cell that is a number;
\* leit holds the readings of the DEFAULT, PRI and EXPR checks, ys the years
\* read: ano_atual, then the year of each check. For a deadline text that
\* "%m/%d %H:%M" rejects no check reads the clock, and "%m/%d/%Y %H:%M"
\* rejects the text in every common year, so that the label is the raw text
\* whatever ano_atual is
Iteracao(f, col, t, tipo, leit, ys) ==
    LET valor == ToFloat(col.util).v
        horario_raw == col.cpt
        ano_atual == IF ys = <<>> THEN AnoInicial ELSE ys[1]
        horario_fmt == HorarioFmt(horario_raw, ano_atual)
        default_info == GetFaixa(t.faixas_default, f)
        pri_info == GetFaixa(t.faixas_priority, f)
        expr_info == GetFaixa(t.faixas_expedite, f)
        dentro_default == dentro_sla(horario_raw, default_info.horas, ys[2], leit[1])
        dentro_pri == dentro_sla(horario_raw, pri_info.horas, ys[3], leit[2])
        dentro_expr == dentro_sla(horario_raw, expr_info.horas, ys[4], leit[3])
        status_default ==
            IF dentro_default THEN check_status(valor, default_info.faixa) ELSE "FORA_SLA"
        status_pri ==
            IF dentro_pri THEN check_status(valor, pri_info.faixa) ELSE "FORA_SLA"
        status_expr ==
            IF dentro_expr THEN check_status(valor, expr_info.faixa) ELSE "FORA_SLA"
        msg == Mensagem(status_default, status_pri, status_expr)
    IN  [status_default |-> status_default,
         status_pri |-> status_pri,
         status_expr |-> status_expr,
         emite |-> msg.tipo /= "nenhuma",
         linha |-> [fc |-> f, cpt |-> horario_fmt, valor |-> valor,
                    msg |-> msg.tipo, faixas |-> msg.faixas,
                    faixa_default |-> default_info.faixa, tipo |-> tipo]]

\* variant of Resultados: each new row put in front of the earlier ones
RECURSIVE Resultados_inverso(_, _, _, _, _, _, _)
Resultados_inverso(f, df, t, tipo, relogio, anos, n) ==
    IF n = 0 THEN <<>>
    ELSE LET antes == Resultados_inverso(f, df, t, tipo, relogio, anos, n - 1)
             it == Iteracao(f, df[n], t, tipo, Leituras(relogio, df, n),
                            AnosLidos(anos, df, n))
         IN  IF ToFloat(df[n].util).nan THEN antes
             ELSE IF it.emite THEN <<it.linha>> \o antes
             ELSE antes

\* the rows appended by the loop over columns 1..n of df
RECURSIVE Resultados(_, _, _, _, _, _, _)
Resultados(f, df, t, tipo, relogio, anos, n) ==
    IF n = 0 THEN <<>>
    ELSE LET antes == Resultados(f, df, t, tipo, relogio, anos, n - 1)
             it == Iteracao(f, df[n], t, tipo, Leituras(relogio, df, n),
                            AnosLidos(anos, df, n))
         IN  IF ToFloat(df[n].util).nan THEN antes
             ELSE IF it.emite THEN Append(antes, it.linha)
             ELSE antes

\* verificar_todos: raises when the conversion of the utilization row does,
\* returns the rows otherwise; relogio holds the NLeitTabela(df) readings of
\* the clock, anos the years read with them
verificar_todos(f, df, t, tipo, relogio, anos) ==
    IF Levanta(df)
    THEN [raises |-> TRUE, rows |-> <<>>]
    ELSE [raises |-> FALSE, rows |-> Resultados(f, df, t, tipo, relogio, anos, Len(df))]

\* the TRB object after verificar_todos: the three lookups are made in each
\* turn of the loop that is not skipped, so in none when the conversion
\* raises or every cell is NaN
TrbApos(f, df, t) ==
    IF \/ \E i \in 1..Len(df) : ToFloat(df[i].util).raises
       \/ \A i \in 1..Len(df) : ToFloat(df[i].util).nan
    THEN t
    ELSE [faixas_expedite |-> CatalogoAposGet(t.faixas_expedite, f),
          faixas_priority |-> CatalogoAposGet(t.faixas_priority, f),
          faixas_default  |-> CatalogoAposGet(t.faixas_default, f)]

(***************************************************************************)
(* validar_wip                                                             *)
(***************************************************************************)
\* an observation that may be None
Some(v) == [none |-> FALSE, v |-> v]

None == [none |-> TRUE, v |-> 0]

\* variant of StatusWip: the bounds of the band excluded
StatusWip_estrito(w, ref, tempos, nome) ==
    LET ref_min == ref * tempos.minima
        ref_max == ref * tempos.maxima
    IN  IF ref > 0
        THEN IF ref_min < 10 * w /\ 10 * w < ref_max
             THEN [txt |-> "WIP dentro do intervalo", nome |-> nome, divide_por |-> 0]
             ELSE IF 10 * w <= ref_min
             THEN [txt |-> "WIP abaixo do minimo", nome |-> nome, divide_por |-> ref_min]
             ELSE [txt |-> "WIP acima do maximo", nome |-> nome, divide_por |-> ref_max]
        ELSE IF nome = "DEFAULT"
             THEN [txt |-> "Valor do Lagrange zerado", nome |-> nome, divide_por |-> 0]
             ELSE [txt |-> "Sem valor de OVERRIDE definido", nome |-> nome, divide_por |-> 0]

\* variant of StatusWip: the two deviation verdicts exchanged
StatusWip_trocado(w, ref, tempos, nome) ==
    LET ref_min == ref * tempos.minima
        ref_max == ref * tempos.maxima
    IN  IF ref > 0
        THEN IF ref_min <= 10 * w /\ 10 * w <= ref_max
             THEN [txt |-> "WIP dentro do intervalo", nome |-> nome, divide_por |-> 0]
             ELSE IF 10 * w < ref_min
             THEN [txt |-> "WIP acima do maximo", nome |-> nome, divide_por |-> ref_max]
             ELSE [txt |-> "WIP abaixo do minimo", nome |-> nome, divide_por |-> ref_min]
        ELSE IF nome = "DEFAULT"
             THEN [txt |-> "Valor do Lagrange zerado", nome |-> nome, divide_por |-> 0]
             ELSE [txt |-> "Sem valor de OVERRIDE definido", nome |-> nome, divide_por |-> 0]

\* the verdict for one reference count (nome is "DEFAULT" or "OVERRIDE");
\* divide_por is the bound the percentage divides by, in tenths, 0 when the
\* branch taken computes no percentage
StatusWip(w, ref, tempos, nome) ==
    LET ref_min == ref * tempos.minima
        ref_max == ref * tempos.maxima
    IN  IF ref > 0
        THEN IF ref_min <= 10 * w /\ 10 * w <= ref_max
             THEN [txt |-> "WIP dentro do intervalo", nome |-> nome, divide_por |-> 0]
             ELSE IF 10 * w < ref_min
             THEN [txt |-> "WIP abaixo do minimo", nome |-> nome, divide_por |-> ref_min]
             ELSE [txt |-> "WIP acima do maximo", nome |-> nome, divide_por |-> ref_max]
        ELSE IF nome = "DEFAULT"
             THEN [txt |-> "Valor do Lagrange zerado", nome |-> nome, divide_por |-> 0]
             ELSE [txt |-> "Sem valor de OVERRIDE definido", nome |-> nome, divide_por |-> 0]

NaoEncontrado == [txt |-> "FC nao encontrado na tabela de tempos", nome |-> "", divide_por |-> 0]

\* validar_wip(fc, wip, lagrange, override) with the table wt; int(None)
\* raises TypeError
validar_wip(wt, f, w, lag, ov) ==
    IF f \notin DOMAIN wt
    THEN [raises |-> FALSE, status |-> <<NaoEncontrado>>]
    ELSE IF w.none
    THEN [raises |-> TRUE, status |-> <<>>]
    ELSE [raises |-> FALSE,
          status |-> <<StatusWip(w.v, lag, wt[f], "DEFAULT"),
                       StatusWip(w.v, ov, wt[f], "OVERRIDE")>>]

(***************************************************************************)
(* validar_processamento, exibir_buffer, puxar_trb                         *)
(***************************************************************************)
\* the percentage of a deviation message as f"{perc:.1f}" prints it, in
\* tenths of a percent: (abs / valor_param) * 100 to the nearest tenth. The
\* code computes it in binary floating point; where the exact quotient lies
\* half way between two tenths the printed digit follows the float's error,
\* which the references used here (divisors of 1000) never meet
Perc10(abs, valor_param) == (2000 * abs + valor_param) \div (2 * valor_param)

\* variant of checar_valor: the bounds of the tolerance excluded
checar_valor_estrito(processamento, valor_param, nome_param) ==
    LET diferenca == processamento - valor_param
        abs == IF diferenca < 0 THEN -diferenca ELSE diferenca
    IN  IF valor_param <= 0
        THEN [txt |-> "Sem valor valido", nome |-> nome_param, divide_por |-> 0, perc10 |-> 0]
        ELSE IF 20 * abs < valor_param
        THEN [txt |-> "Processamento dentro do intervalo aceitavel", nome |-> nome_param,
              divide_por |-> valor_param, perc10 |-> 0]
        ELSE IF diferenca < 0
        THEN [txt |-> "Processamento abaixo", nome |-> nome_param,
              divide_por |-> valor_param, perc10 |-> Perc10(abs, valor_param)]
        ELSE [txt |-> "Processamento acima", nome |-> nome_param,
              divide_por |-> valor_param, perc10 |-> Perc10(abs, valor_param)]

\* checar_valor: the message for one reference; divide_por is the reference
\* the percentage is taken of (0: none computed), perc10 the percentage the
\* message prints (0 in the messages that print none)
checar_valor(processamento, valor_param, nome_param) ==
    LET diferenca == processamento - valor_param
        abs == IF diferenca < 0 THEN -diferenca ELSE diferenca
    IN  IF valor_param <= 0
        THEN [txt |-> "Sem valor valido", nome |-> nome_param, divide_por |-> 0, perc10 |-> 0]
        ELSE IF 20 * abs <= valor_param
        THEN [txt |-> "Processamento dentro do intervalo aceitavel", nome |-> nome_param,
              divide_por |-> valor_param, perc10 |-> 0]
        ELSE IF diferenca < 0
        THEN [txt |-> "Processamento abaixo", nome |-> nome_param,
              divide_por |-> valor_param, perc10 |-> Perc10(abs, valor_param)]
        ELSE [txt |-> "Processamento acima", nome |-> nome_param,
              divide_por |-> valor_param, perc10 |-> Perc10(abs, valor_param)]

validar_processamento(processamento, lag, ov) ==
    <<checar_valor(processamento, lag, "Lagrange"), checar_valor(processamento, ov, "Override")>>

\* a buffer reading as scraped: three texts, each a percentage or not a number
Buffers(atual, minimo, maximo) == [atual |-> atual, minimo |-> minimo, maximo |-> maximo]

\* exibir_buffer: float() of a text that is no number raises ValueError
\* before anything is written; a division by a zero bound raises after the
\* three lines were written
exibir_buffer(tipo, buffers) ==
    IF buffers.atual.none \/ buffers.minimo.none \/ buffers.maximo.none
    THEN [raises |-> TRUE, wrote |-> FALSE, txt |-> "", contra |-> 0]
    ELSE LET atual == buffers.atual.v
             minimo == buffers.minimo.v
             maximo == buffers.maximo.v
         IN  IF atual < minimo
             THEN IF minimo = 0
                  THEN [raises |-> TRUE, wrote |-> TRUE, txt |-> "", contra |-> 0]
                  ELSE [raises |-> FALSE, wrote |-> TRUE, txt |-> "abaixo do minimo",
                        contra |-> minimo]
             ELSE IF atual > maximo
             THEN IF maximo = 0
                  THEN [raises |-> TRUE, wrote |-> TRUE, txt |-> "", contra |-> 0]
                  ELSE [raises |-> FALSE, wrote |-> TRUE, txt |-> "acima do maximo",
                        contra |-> maximo]
             ELSE [raises |-> FALSE, wrote |-> TRUE, txt |-> "Dentro dos limites aceitaveis",
                   contra |-> 0]

agregados == {"GRU5"}

\* a table that may be missing
NoTable == [none |-> TRUE, df |-> <<>>]

SomeTable(df) == [none |-> FALSE, df |-> df]

\* the number of clock readings the two scans of the main flow take
NLeituras(df_singles, df_multis) ==
    IF ~df_singles.none /\ Levanta(df_singles.df) THEN 0
    ELSE (IF df_singles.none THEN 0 ELSE NLeitTabela(df_singles.df))
         + (IF df_multis.none THEN 0 ELSE NLeitTabela(df_multis.df))

\* the combined result of the main flow: the rows of the Singles table, then
\* those of the Multis table, a table that is None adding nothing; relogio
\* holds the readings of the Singles scan, then those of the Multis scan,
\* and anos the years read with them
resultados_trb(f, df_singles, df_multis, t, relogio, anos) ==
    LET ns == IF df_singles.none THEN 0 ELSE NLeitTabela(df_singles.df)
        as == 4 * (ns \div 3)
        rs == IF df_singles.none THEN [raises |-> FALSE, rows |-> <<>>]
              ELSE verificar_todos(f, df_singles.df, t, "Singles", SubSeq(relogio, 1, ns),
                                   SubSeq(anos, 1, as))
        rm == IF df_multis.none THEN [raises |-> FALSE, rows |-> <<>>]
              ELSE verificar_todos(f, df_multis.df, t, "Multis",
                                   SubSeq(relogio, ns + 1, Len(relogio)),
                                   SubSeq(anos, as + 1, Len(anos)))
    IN  IF rs.raises \/ rm.raises
        THEN [raises |-> TRUE, rows |-> <<>>]
        ELSE [raises |-> FALSE, rows |-> rs.rows \o rm.rows]

\* the TRB object after the scans of the main flow: the Multis table is
\* scanned only when the scan of the Singles table did not raise
TrbAposResultados(f, df_singles, df_multis, t) ==
    LET t1 == IF df_singles.none THEN t ELSE TrbApos(f, df_singles.df, t)
        singles_raises == ~df_singles.none
                          /\ \E i \in 1..Len(df_singles.df) :
                                ToFloat(df_singles.df[i].util).raises
    IN  IF singles_raises \/ df_multis.none THEN t1
        ELSE TrbApos(f, df_multis.df, t1)

\* the two tables of one pull, of columns that differ in their value; the
\* table may be missing
PairColumns == {[cpt |-> H0600, util |-> c] : c \in {Cell("num", 92), Cell("num", 96)}}

PairTables == {NoTable} \cup {SomeTable(df) : df \in SeqsUpTo(PairColumns, MaxRunCols)}

(***************************************************************************)
(* The engine as a library: any operation, in any order, at any time       *)
(***************************************************************************)
NoCall == [op |-> "none"]

Init ==
    /\ now = 60
    /\ trb = TRB
    /\ wip_tempos = WipTempos
    /\ call = NoCall
    /\ memo = NoCall
    /\ pc = "idle"
    /\ driver = "none"
    /\ fc \in fcs_permitidos
    /\ wip = None
    /\ lagrange = 0
    /\ override = 0
    /\ shown = <<>>

\* what the engine operations leave alone: the state of a run, and the
\* earlier call an observer may have noted
runVars == <<memo, pc, driver, fc, wip, lagrange, override, shown>>

\* the wall clock moves on between two calls (during a call it moves as
\* Relogios says)
Tick ==
    /\ call = NoCall
    /\ \E t \in NowSet : t > now /\ now' = t
    /\ UNCHANGED <<trb, wip_tempos, call, runVars>>

\* dentro_sla on its own: when the text parses the call reads the year and
\* then the clock, which may have moved since the last reading
CallDentroSla ==
    /\ call = NoCall
    /\ \E cpt \in CptTexts, horas \in LeadTimes :
         \E relogio \in Relogios(now, IF StrptimeOk(cpt) THEN 1 ELSE 0) :
            \E anos \in AnosDentroSla(now, relogio) :
               /\ call' = [op |-> "dentro_sla", cpt |-> cpt, horas |-> horas,
                           relogio |-> relogio, anos |-> anos,
                           ret |-> dentro_sla(cpt, horas, anos[1], relogio[1])]
               /\ now' = FimRelogio(now, relogio)
    /\ UNCHANGED <<trb, wip_tempos, runVars>>

CallCheckStatus ==
    /\ call = NoCall
    /\ \E valor \in (-1)..(MaxBand + 1), lo \in 0..MaxBand, hi \in 0..MaxBand :
         call' = [op |-> "check_status", valor |-> valor, faixa |-> <<lo, hi>>,
                  ret |-> check_status(valor, <<lo, hi>>)]
    /\ UNCHANGED <<now, trb, wip_tempos, runVars>>

CallVerificarTodos ==
    /\ call = NoCall
    /\ \E df \in Tables, tipo \in {"Singles", "Multis"} :
         \E relogio \in Relogios(now, NLeitTabela(df)) :
            \E anos \in AnosDe(now, relogio) :
               /\ call' = [op |-> "verificar_todos", fc |-> fc, df |-> df, tipo |-> tipo,
                           relogio |-> relogio, anos |-> anos,
                           ret |-> verificar_todos(fc, df, trb, tipo, relogio, anos)]
               /\ trb' = TrbApos(fc, df, trb)
               /\ now' = FimRelogio(now, relogio)
    /\ UNCHANGED <<wip_tempos, runVars>>

CallValidarWip ==
    /\ call = NoCall
    /\ \E w \in {None} \cup {Some(v) : v \in WipValues},
          lag \in RefValues, ov \in RefValues :
         call' = [op |-> "validar_wip", fc |-> fc, wip |-> w, lagrange |-> lag,
                  override |-> ov, ret |-> validar_wip(wip_tempos, fc, w, lag, ov)]
    /\ UNCHANGED <<now, trb, wip_tempos, runVars>>

CallValidarProcessamento ==
    /\ call = NoCall
    /\ \E p \in ProcValues, lag \in ProcRefs, ov \in ProcRefs :
         call' = [op |-> "validar_processamento", processamento |-> p, lagrange |-> lag,
                  override |-> ov, ret |-> validar_processamento(p, lag, ov)]
    /\ UNCHANGED <<now, trb, wip_tempos, runVars>>

CallExibirBuffer ==
    /\ call = NoCall
    /\ \E tipo \in {"MZ", "MS"},
          a \in {None} \cup {Some(v) : v \in BufValues},
          mn \in {None} \cup {Some(v) : v \in BufMins},
          mx \in {None} \cup {Some(v) : v \in BufMaxs} :
         call' = [op |-> "exibir_buffer", tipo |-> tipo, buffers |-> Buffers(a, mn, mx),
                  ret |-> exibir_buffer(tipo, Buffers(a, mn, mx))]
    /\ UNCHANGED <<now, trb, wip_tempos, runVars>>

\* the two scans of the TRB section, Singles then Multis, on the tables of
\* one pull
CallResultadosTrb ==
    /\ call = NoCall
    /\ \E df_singles \in PairTables, df_multis \in PairTables :
         \E relogio \in Relogios(now, NLeituras(df_singles, df_multis)) :
            \E anos \in AnosDe(now, relogio) :
               /\ call' = [op |-> "resultados_trb", fc |-> fc, df_singles |-> df_singles,
                           df_multis |-> df_multis, relogio |-> relogio, anos |-> anos,
                           ret |-> resultados_trb(fc, df_singles, df_multis, trb,
                                                  relogio, anos)]
               /\ trb' = TrbAposResultados(fc, df_singles, df_multis, trb)
               /\ now' = FimRelogio(now, relogio)
    /\ UNCHANGED <<wip_tempos, runVars>>

\* the caller takes the result
Return ==
    /\ call /= NoCall
    /\ call' = NoCall
    /\ UNCHANGED <<now, trb, wip_tempos, runVars>>

Next ==
    \/ Tick
    \/ CallDentroSla
    \/ CallCheckStatus
    \/ CallVerificarTodos
    \/ CallValidarWip
    \/ CallValidarProcessamento
    \/ CallExibirBuffer
    \/ CallResultadosTrb
    \/ Return

Spec == Init /\ [][Next]_vars

\* the checks of one value on their own: the clock and the validators that
\* take no table (dentro_sla, check_status, validar_wip,
\* validar_processamento, exibir_buffer)
NextValidadores ==
    \/ Tick
    \/ CallDentroSla
    \/ CallCheckStatus
    \/ CallValidarWip
    \/ CallValidarProcessamento
    \/ CallExibirBuffer
    \/ Return

SpecValidadores == Init /\ [][NextValidadores]_vars

(***************************************************************************)
(* WIP validation of a growing count: the validator is called for a count, *)
(* the call is noted, and it is called again for a count at least as large *)
(* with the same facility and references                                   *)
(***************************************************************************)
\* the state of a run, which none of the engine's operations touches
idleRun == <<pc, driver, fc, wip, lagrange, override, shown>>

MonoFirst ==
    /\ call = NoCall
    /\ memo = NoCall
    /\ \E w \in WipValues, lag \in RefValues, ov \in RefValues :
         memo' = [op |-> "validar_wip", fc |-> fc, wip |-> Some(w), lagrange |-> lag,
                  override |-> ov, ret |-> validar_wip(wip_tempos, fc, Some(w), lag, ov)]
    /\ UNCHANGED <<now, trb, wip_tempos, call, idleRun>>

MonoSecond ==
    /\ call = NoCall
    /\ memo /= NoCall
    /\ \E w \in WipValues :
         /\ w >= memo.wip.v
         /\ call' = [op |-> "validar_wip", fc |-> memo.fc, wip |-> Some(w),
                     lagrange |-> memo.lagrange, override |-> memo.override,
                     ret |-> validar_wip(wip_tempos, memo.fc, Some(w), memo.lagrange,
                                         memo.override)]
    /\ UNCHANGED <<now, trb, wip_tempos, memo, idleRun>>

NextMono ==
    \/ MonoFirst
    \/ MonoSecond
    \/ Return

SpecMono == Init /\ [][NextMono]_vars


(***************************************************************************)
(* An operation invoked, noted, and invoked again with the same arguments  *)
(* after the clock moved and other operations were invoked                 *)
(***************************************************************************)
MaxTwiceCols == 1

\* the invocations the engine offers for the facility f: the operation and
\* its arguments
TwiceCalls(f) ==
    {[op |-> "dentro_sla", cpt |-> cpt, horas |-> horas] :
        cpt \in CptTexts, horas \in LeadTimes}
    \cup {[op |-> "check_status", valor |-> valor, faixa |-> <<lo, hi>>] :
             valor \in (-1)..(MaxBand + 1), lo \in 0..MaxBand, hi \in 0..MaxBand}
    \cup {[op |-> "verificar_todos", fc |-> f, df |-> df, tipo |-> tipo] :
             df \in SeqsUpTo(CoreColumns, MaxTwiceCols), tipo \in {"Singles", "Multis"}}
    \cup {[op |-> "validar_wip", fc |-> f, wip |-> w, lagrange |-> lag, override |-> ov] :
             w \in {None, Some(17), Some(18), Some(22), Some(23)},
             lag \in RefValues, ov \in RefValues}
    \cup {[op |-> "validar_processamento", processamento |-> p, lagrange |-> lag,
           override |-> ov] :
             p \in {95, 106, 120}, lag \in ProcRefs, ov \in ProcRefs}
    \cup {[op |-> "exibir_buffer", tipo |-> "MZ",
           buffers |-> Buffers(Some(a), Some(80), Some(90))] : a \in {70, 85, 95}}

\* the invocations made between the two: one or two of each operation
EntreCalls(f) ==
    {[op |-> "dentro_sla", cpt |-> H0600, horas |-> 60],
     [op |-> "check_status", valor |-> 1, faixa |-> <<0, 2>>],
     [op |-> "verificar_todos", fc |-> f, tipo |-> "Singles",
      df |-> <<[cpt |-> H0600, util |-> Cell("num", 96)]>>],
     [op |-> "verificar_todos", fc |-> f, tipo |-> "Multis",
      df |-> <<[cpt |-> H0600, util |-> Cell("text", 0)]>>],
     [op |-> "validar_wip", fc |-> f, wip |-> Some(17), lagrange |-> 10, override |-> 0],
     [op |-> "validar_processamento", processamento |-> 120, lagrange |-> 100,
      override |-> 0],
     [op |-> "exibir_buffer", tipo |-> "MS", buffers |-> Buffers(Some(85), Some(80), Some(90))]}

\* the readings of the clock the invocation c takes when the clock stood at
\* agora before it: those of a scan, the one of dentro_sla on its own
RelogiosDe(c, agora) ==
    CASE c.op = "verificar_todos" -> Relogios(agora, NLeitTabela(c.df))
      [] c.op = "dentro_sla" -> Relogios(agora, IF StrptimeOk(c.cpt) THEN 1 ELSE 0)
      [] OTHER -> {<<>>}

\* the years the invocation c reads with the readings relogio
AnosDeCall(c, agora, relogio) ==
    CASE c.op = "verificar_todos" -> AnosDe(agora, relogio)
      [] c.op = "dentro_sla" -> AnosDentroSla(agora, relogio)
      [] OTHER -> {<<>>}

\* what the invocation c returns with the catalogs t and wt, reading the
\* clock as relogio and the year as anos
Resultado(c, t, wt, relogio, anos) ==
    CASE c.op = "dentro_sla" -> dentro_sla(c.cpt, c.horas, anos[1], relogio[1])
      [] c.op = "check_status" -> check_status(c.valor, c.faixa)
      [] c.op = "verificar_todos" -> verificar_todos(c.fc, c.df, t, c.tipo, relogio, anos)
      [] c.op = "validar_wip" -> validar_wip(wt, c.fc, c.wip, c.lagrange, c.override)
      [] c.op = "validar_processamento" ->
            validar_processamento(c.processamento, c.lagrange, c.override)
      [] c.op = "exibir_buffer" -> exibir_buffer(c.tipo, c.buffers)

\* the TRB object the invocation c leaves
TrbDepois(c, t) ==
    IF c.op = "verificar_todos" THEN TrbApos(c.fc, c.df, t) ELSE t

\* the operation and the arguments of a noted or pending call
Args(c) == [k \in DOMAIN c \ {"ret", "agora", "entre", "relogio", "anos"} |-> c[k]]

\* c with what it returned and what the observer notes with it: the time at
\* which it was invoked and the readings it took
Noted(c, ret, agora, relogio, anos) ==
    [k \in DOMAIN c \cup {"ret", "agora", "entre", "relogio", "anos"} |->
        IF k = "ret" THEN ret
        ELSE IF k = "agora" THEN agora
        ELSE IF k = "entre" THEN FALSE
        ELSE IF k = "relogio" THEN relogio
        ELSE IF k = "anos" THEN anos
        ELSE c[k]]

\* the first invocation, noted with its result, the time and the readings
Primeira ==
    /\ call = NoCall
    /\ memo = NoCall
    /\ \E c \in TwiceCalls(fc) :
         \E relogio \in RelogiosDe(c, now) :
            \E anos \in AnosDeCall(c, now, relogio) :
               /\ memo' = Noted(c, Resultado(c, trb, wip_tempos, relogio, anos), now,
                                relogio, anos)
               /\ trb' = TrbDepois(c, trb)
               /\ now' = FimRelogio(now, relogio)
    /\ UNCHANGED <<wip_tempos, call, idleRun>>

\* any other invocation in between, its result dropped
Entre ==
    /\ call = NoCall
    /\ memo /= NoCall
    /\ \E c \in EntreCalls(fc) :
         /\ Args(c) /= Args(memo)
         /\ trb' = TrbDepois(c, trb)
    /\ memo' = [memo EXCEPT !.entre = TRUE]
    /\ UNCHANGED <<now, wip_tempos, call, idleRun>>

\* the noted invocation made again
Repetir ==
    /\ call = NoCall
    /\ memo /= NoCall
    /\ LET c == Args(memo)
       IN  \E relogio \in RelogiosDe(c, now) :
             \E anos \in AnosDeCall(c, now, relogio) :
                /\ call' = [k \in DOMAIN c \cup {"ret", "agora", "relogio", "anos"} |->
                              IF k = "ret"
                              THEN Resultado(c, trb, wip_tempos, relogio, anos)
                              ELSE IF k = "agora" THEN now
                              ELSE IF k = "relogio" THEN relogio
                              ELSE IF k = "anos" THEN anos
                              ELSE c[k]]
                /\ trb' = TrbDepois(c, trb)
                /\ now' = FimRelogio(now, relogio)
    /\ UNCHANGED <<wip_tempos, memo, idleRun>>

NextTwice ==
    \/ Tick
    \/ Primeira
    \/ Entre
    \/ Repetir
    \/ Return

SpecTwice == Init /\ [][NextTwice]_vars

(***************************************************************************)
(* One run of the "Entrar" button                                          *)
(***************************************************************************)
RunFCs == {"GRU5", "GRU9", "GIG2", "XCV9"}

\* the run is started in the last two hours before the 06:00 deadline
RunNows == {260, 350}

RunWip == {None, Some(18), Some(1000)}

RunRef == {0, 10}

RunProc == {None, Some(10), Some(12)}

RunColumns == {[cpt |-> H0600, util |-> c] :
                  c \in {Cell("num", 96), Cell("text", 0)}}

RunTables == {NoTable} \cup {SomeTable(df) : df \in SeqsUpTo(RunColumns, MaxRunCols)}

RunBuffers == {Buffers(Some(a), Some(80), Some(90)) : a \in {70, 85, 95}}
                \cup {Buffers(None, Some(80), Some(90)), Buffers(Some(5), Some(0), Some(0))}

Item(sec, kind, body) == [sec |-> sec, kind |-> kind, body |-> body]

\* the handler of the outer try: "Erro no login ou extracao de dados"
ErroGeral == Item("run", "error", "Erro no login ou extracao de dados")

InitRun ==
    /\ now \in RunNows
    /\ trb = TRB
    /\ wip_tempos = WipTempos
    /\ call = NoCall
    /\ memo = NoCall
    /\ pc = "idle"
    /\ driver = "none"
    /\ fc \in RunFCs
    /\ wip = None
    /\ lagrange = 0
    /\ override = 0
    /\ shown = <<>>

engineVars == <<now, wip_tempos, call, memo, fc>>

\* the button: the credentials are checked, then the browser is started
Entrar ==
    /\ pc = "idle"
    /\ \E username \in {"", "user"}, pin \in {"", "1234"}, started \in BOOLEAN :
         IF username = "" \/ pin = ""
         THEN /\ shown' = Append(shown, Item("entrar", "error", "preencha Username e PIN"))
              /\ pc' = "done"
              /\ UNCHANGED driver
         ELSE IF started
         THEN /\ driver' = "open"
              /\ pc' = "login"
              /\ UNCHANGED shown
         ELSE \* configurar_navegador raises, outside the try
              /\ shown' = Append(shown, Item("entrar", "exception", "configurar_navegador"))
              /\ pc' = "done"
              /\ UNCHANGED driver
    /\ UNCHANGED <<engineVars, trb, wip, lagrange, override>>

\* variant of Login: a failed login ends the run without reaching the
\* finally clause
Login_sem_finally ==
    /\ pc = "login"
    /\ \E get_ok \in BOOLEAN :
         IF get_ok
         THEN /\ shown' = Append(shown, Item("login", "success", "Login realizado com sucesso"))
              /\ pc' = "wip"
         ELSE /\ shown' = Append(shown, ErroGeral)
              /\ pc' = "done"
    /\ UNCHANGED <<engineVars, trb, driver, wip, lagrange, override>>

\* perform_login: only the first driver.get is outside a try
Login ==
    /\ pc = "login"
    /\ \E get_ok \in BOOLEAN :
         IF get_ok
         THEN /\ shown' = Append(shown, Item("login", "success", "Login realizado com sucesso"))
              /\ pc' = "wip"
         ELSE /\ shown' = Append(shown, ErroGeral)
              /\ pc' = "finally"
    /\ UNCHANGED <<engineVars, trb, driver, wip, lagrange, override>>

\* puxar_wip, puxar_lagrange, puxar_override, the three metrics, validar_wip
SecaoWip ==
    /\ pc = "wip"
    /\ \E get_ok \in BOOLEAN, w \in RunWip, lag \in RunRef, ov \in RunRef :
         IF ~get_ok
         THEN /\ shown' = Append(shown, ErroGeral)
              /\ pc' = "finally"
              /\ UNCHANGED <<wip, lagrange, override>>
         ELSE /\ wip' = w
              /\ lagrange' = lag
              /\ override' = ov
              /\ LET r == validar_wip(wip_tempos, fc, w, lag, ov)
                     metrics == Append(shown, Item("wip", "metric", <<w, Some(lag), Some(ov)>>))
                 IN  IF r.raises
                     THEN /\ shown' = Append(metrics, ErroGeral)
                          /\ pc' = "finally"
                     ELSE /\ shown' = Append(metrics, Item("wip", "info", r.status))
                          /\ pc' = "proc"
    /\ UNCHANGED <<engineVars, trb, driver>>

\* puxar_processamento, validar_processamento
SecaoProcessamento ==
    /\ pc = "proc"
    /\ \E get_ok \in BOOLEAN, p \in RunProc :
         IF ~get_ok
         THEN /\ shown' = Append(shown, ErroGeral)
              /\ pc' = "finally"
         ELSE IF p.none
         THEN /\ shown' = Append(shown, Item("proc", "warning", "sem dados de processamento"))
              /\ pc' = "tw"
         ELSE /\ shown' = Append(shown, Item("proc", "info",
                                              validar_processamento(p.v, lagrange, override)))
              /\ pc' = "tw"
    /\ UNCHANGED <<engineVars, trb, driver, wip, lagrange, override>>

\* buffer TW: everything inside a bare try / except
SecaoBufferTW ==
    /\ pc = "tw"
    /\ \E ok \in BOOLEAN :
         shown' =
            IF fc \in fcs_autoflow_MZ \cup fcs_autoflow_MS
            THEN IF ok
                 THEN Append(shown, Item("tw", "success",
                                         IF fc \in fcs_autoflow_MZ THEN "Multizone" ELSE "Multismall"))
                 ELSE Append(shown, Item("tw", "warning", "sem buffer TW"))
            ELSE shown
    /\ pc' = "rebin"
    /\ UNCHANGED <<engineVars, trb, driver, wip, lagrange, override>>

\* buffer rebin: buffers_MZ / buffers_MS and exibir_buffer inside a bare
\* try / except
SecaoBufferRebin ==
    /\ pc = "rebin"
    /\ \E got \in BOOLEAN, buffers \in RunBuffers :
         LET tipo == IF fc \in fcs_autoflow_MZ THEN "MZ" ELSE "MS"
             r == exibir_buffer(tipo, buffers)
         IN  shown' =
                IF fc \notin fcs_autoflow_MZ \cup fcs_autoflow_MS THEN shown
                ELSE IF ~got
                THEN Append(shown, Item("rebin", "warning", "sem dados do buffer"))
                ELSE IF r.raises /\ ~r.wrote
                THEN Append(shown, Item("rebin", "error", "Erro ao carregar dados dos buffers"))
                ELSE IF r.raises
                THEN shown \o <<Item("rebin", "buffer", r),
                                Item("rebin", "error", "Erro ao carregar dados dos buffers")>>
                ELSE Append(shown, Item("rebin", "buffer", r))
    /\ pc' = "trb"
    /\ UNCHANGED <<engineVars, trb, driver, wip, lagrange, override>>

\* TRB(), puxar_trb and the two scans, inside try / except Exception
SecaoTrb ==
    /\ pc = "trb"
    /\ \/ /\ trb' = TRB
          /\ now' = now
          /\ shown' = Append(shown, Item("trb", "error", "Erro ao puxar/verificar TRB"))
       \/ \E df_singles \in RunTables, df_multis \in RunTables :
            LET multis == IF fc \in agregados THEN NoTable ELSE df_multis
            IN  \E relogio \in Relogios(now, NLeituras(df_singles, multis)) :
                 \E anos \in AnosDe(now, relogio) :
                  LET r == resultados_trb(fc, df_singles, multis, TRB, relogio, anos)
                      resultados == r.rows
                  IN  /\ trb' = TrbAposResultados(fc, df_singles, multis, TRB)
                      /\ now' = FimRelogio(now, relogio)
                      /\ shown' =
                           IF r.raises
                           THEN Append(shown, Item("trb", "error",
                                                   "Erro ao puxar/verificar TRB"))
                           ELSE IF resultados /= <<>>
                           THEN Append(shown, Item("trb", "dataframe", resultados))
                           ELSE Append(shown,
                                       Item("trb", "success", "Nenhuma anomalia TRB detectada"))
    /\ pc' = "finally"
    /\ UNCHANGED <<wip_tempos, call, memo, fc, driver, wip, lagrange, override>>

\* finally: driver.quit()
Finally ==
    /\ pc = "finally"
    /\ driver' = "quit"
    /\ pc' = "done"
    /\ UNCHANGED <<engineVars, trb, wip, lagrange, override, shown>>

\* the steps of the run
PassoRun ==
    \/ Entrar
    \/ Login
    \/ SecaoWip
    \/ SecaoProcessamento
    \/ SecaoBufferTW
    \/ SecaoBufferRebin
    \/ SecaoTrb
    \/ Finally

\* the clock moves on while the run sleeps and waits for its pages, before
\* and between the steps
NextRun ==
    \/ Tick
    \/ PassoRun

SpecRun == InitRun /\ [][NextRun]_vars

\* the run is one thread of straight-line code whose every step returns or
\* raises (the waits on the browser time out), so a step that can be taken
\* is taken
SpecRunFair == InitRun /\ [][NextRun]_vars /\ WF_vars(PassoRun)

(***************************************************************************)
(* Properties                                                              *)
(***************************************************************************)
IsScan == call.op = "verificar_todos"

\* the three verdicts the scan of call gives its column i, each with the
\* reading of the clock its check took
Verdicts(i) ==
    LET it == Iteracao(call.fc, call.df[i], trb, call.tipo,
                       Leituras(call.relogio, call.df, i), AnosLidos(call.anos, call.df, i))
    IN  <<it.status_default, it.status_pri, it.status_expr>>

\* the clock stood still while the scan of call ran: every reading is now,
\* every year read is the year of now
Parado ==
    /\ \A k \in 1..Len(call.relogio) : call.relogio[k] = now
    /\ \A k \in 1..Len(call.anos) : call.anos[k] = Ano(now)

\* the time at which the scan of call started: its first reading of the
\* clock
Inicio == IF call.relogio = <<>> THEN now ELSE call.relogio[1]

IsNum(col) == col.util.k = "num"

\* C1: for the deadline d (the text with the year the call read), the lead
\* time L and the time now the call read, dentro_sla answers False while
\* now < d - L and True for d - L <= now <= d.
C1_Stated ==
    (call.op = "dentro_sla" /\ StrptimeOk(call.cpt)) =>
        LET d == HoraCpt(call.cpt, call.anos[1])
            L == call.horas
        IN  /\ (now < d - L) => (call.ret = FALSE)
            /\ (d - L <= now /\ now <= d) => (call.ret = TRUE)

\* the row C2 expects of three verdicts: ACTIVE naming the active categories
\* when there is one, else ATTENTION when there is one and none is suppressed
C2_Expect(v) ==
    LET nomes == <<"DEFAULT", "PRI", "EXPR">>
    IN  IF \E i \in 1..3 : v[i] = "ATIVO"
        THEN [msg |-> "TRB ATIVO",
              faixas |-> SelectSeq(nomes, LAMBDA n : \E i \in 1..3 : nomes[i] = n /\ v[i] = "ATIVO")]
        ELSE IF (\E i \in 1..3 : v[i] = "ATENCAO") /\ (\A i \in 1..3 : v[i] /= "FORA_SLA")
        THEN [msg |-> "ATENCAO", faixas |-> <<>>]
        ELSE [msg |-> "nenhuma", faixas |-> <<>>]

RECURSIVE C2_ExpectRows(_, _)
C2_ExpectRows(df, n) ==
    IF n = 0 THEN <<>>
    ELSE LET antes == C2_ExpectRows(df, n - 1)
             e == C2_Expect(Verdicts(n))
         IN  IF IsNum(df[n]) /\ e.msg /= "nenhuma" THEN Append(antes, e) ELSE antes

\* C2: the rows of a scan are, column by column, the ACTIVE row naming
\* exactly the active categories when a category is active, else the
\* ATTENTION row when a category is in attention and none is suppressed, and
\* no row otherwise.
C2_Precedence ==
    (IsScan /\ ~call.ret.raises) =>
        [i \in 1..Len(call.ret.rows) |->
            [msg |-> call.ret.rows[i].msg, faixas |-> call.ret.rows[i].faixas]]
        = C2_ExpectRows(call.df, Len(call.df))

\* a column in attention beside a suppressed category gives no row, while
\* another column of the same table gives an ACTIVE row
C2_Witness ==
    /\ IsScan /\ ~call.ret.raises
    /\ Len(call.df) = 2
    /\ IsNum(call.df[1]) /\ IsNum(call.df[2])
    /\ "ATENCAO" \in {Verdicts(1)[i] : i \in 1..3}
    /\ "FORA_SLA" \in {Verdicts(1)[i] : i \in 1..3}
    /\ "ATIVO" \notin {Verdicts(1)[i] : i \in 1..3}
    /\ Verdicts(2)[1] = "FORA_SLA"
    /\ Verdicts(2)[2] = "ATIVO"
    /\ Len(call.ret.rows) = 1
    /\ call.ret.rows[1].faixas = <<"PRI">>

\* C3 as stated: for lo <= hi, lo = hi included, hi is ACTIVE, lo is INACTIVE
\* and every value strictly between is ATTENTION.
C3_Stated ==
    (call.op = "check_status" /\ call.faixa[1] <= call.faixa[2]) =>
        /\ (call.valor = call.faixa[2]) => (call.ret = "ATIVO")
        /\ (call.valor = call.faixa[1]) => (call.ret = "INATIVO")
        /\ (call.faixa[1] < call.valor /\ call.valor < call.faixa[2]) => (call.ret = "ATENCAO")

\* C3 amended: for lo <= hi, hi is ACTIVE; lo is INACTIVE when lo < hi (when
\* lo = hi the one bound is ACTIVE); every value strictly between the bounds
\* is ATTENTION, and no other value is.
C3_Classify ==
    (call.op = "check_status" /\ call.faixa[1] <= call.faixa[2]) =>
        /\ (call.valor = call.faixa[2]) => (call.ret = "ATIVO")
        /\ (call.valor = call.faixa[1] /\ call.faixa[1] < call.faixa[2]) => (call.ret = "INATIVO")
        /\ (call.ret = "ATENCAO") <=> (call.faixa[1] < call.valor /\ call.valor < call.faixa[2])

\* a band of one point, classified at that point
C3_Witness ==
    /\ call.op = "check_status"
    /\ call.faixa[1] = call.faixa[2]
    /\ call.valor = call.faixa[1]
    /\ call.ret = "ATIVO"

\* the column of scenario A of a scan: deadline 3 h after now, utilization 96
C4_Column(col) ==
    /\ StrptimeOk(col.cpt)
    /\ HoraCpt(col.cpt, Ano(now)) = now + 180
    /\ col.util = Cell("num", 96)

\* C4: scanning GRU5 (default band 90-95, lead time 2.25 h) at the time now
\* (every reading of the clock is now), every column whose deadline is 3
\* hours after now and whose utilization is 96 gives one row, an ACTIVE one
\* that cites DEFAULT.
C4_ScenarioA ==
    (IsScan /\ call.fc = "GRU5" /\ ~call.ret.raises /\ Parado) =>
        /\ trb.faixas_default["GRU5"] = Faixa(<<90, 95>>, 135)
        /\ LET cols == {i \in 1..Len(call.df) : C4_Column(call.df[i])}
               rows == {j \in 1..Len(call.ret.rows) :
                           /\ call.ret.rows[j].valor = 96
                           /\ \E h \in Headers :
                                 /\ StrptimeOk(h) /\ HoraCpt(h, Ano(now)) = now + 180
                                 /\ call.ret.rows[j].cpt = HorarioFmt(h, Ano(now))}
           IN  /\ Cardinality(rows) = Cardinality(cols)
               /\ (cols /= {}) =>
                     \A j \in rows :
                        /\ call.ret.rows[j].msg = "TRB ATIVO"
                        /\ \E k \in 1..Len(call.ret.rows[j].faixas) :
                              call.ret.rows[j].faixas[k] = "DEFAULT"

C4_Witness ==
    /\ IsScan /\ call.fc = "GRU5" /\ ~call.ret.raises /\ Parado
    /\ Len(call.df) = 1
    /\ C4_Column(call.df[1])
    /\ Len(call.ret.rows) = 1
    /\ call.ret.rows[1].msg = "TRB ATIVO"
    /\ call.ret.rows[1].faixas = <<"DEFAULT", "PRI">>

\* the column of scenario B of a scan: deadline 10 minutes after now,
\* utilization 40
C5_Column(col) ==
    /\ StrptimeOk(col.cpt)
    /\ HoraCpt(col.cpt, Ano(now)) = now + 10
    /\ col.util = Cell("num", 40)

\* the rows of a scan that show the deadline and the value of column col
RowsOf(col) ==
    {j \in 1..Len(call.ret.rows) :
        /\ \E a \in Anos : call.ret.rows[j].cpt = HorarioFmt(col.cpt, a)
        /\ call.ret.rows[j].valor = col.util.v}

\* C5: scanning GRU5 (priority band 90-95, lead time 2 h) at the
\* time now (every reading of the clock is now), a column whose deadline is
\* 10 minutes after now and whose utilization is 40 has the priority verdict
\* INACTIVE, and gives no row.
C5_Stated ==
    (IsScan /\ call.fc = "GRU5" /\ ~call.ret.raises /\ Parado) =>
        \A i \in 1..Len(call.df) :
            C5_Column(call.df[i]) =>
                /\ Verdicts(i)[2] = "INATIVO"
                /\ RowsOf(call.df[i]) = {}

\* the columns of df whose deadline text parses, in their order
RECURSIVE Parseable(_, _)
Parseable(df, n) ==
    IF n = 0 THEN <<>>
    ELSE IF StrptimeOk(df[n].cpt) THEN Append(Parseable(df, n - 1), df[n])
    ELSE Parseable(df, n - 1)

\* C6: dentro_sla answers False for a deadline text that does not parse,
\* whatever the lead time; in a scan every column with such a text has the
\* three verdicts FORA_SLA and gives no row, and the rows of the scan are
\* those of the other columns.
C6_FailClosed ==
    /\ (call.op = "dentro_sla" /\ ~StrptimeOk(call.cpt)) => (call.ret = FALSE)
    /\ (IsScan /\ ~call.ret.raises) =>
          /\ \A i \in 1..Len(call.df) :
                (IsNum(call.df[i]) /\ ~StrptimeOk(call.df[i].cpt)) =>
                    /\ Verdicts(i) = <<"FORA_SLA", "FORA_SLA", "FORA_SLA">>
                    /\ \A j \in 1..Len(call.ret.rows), a \in Anos :
                          call.ret.rows[j].cpt /= HorarioFmt(call.df[i].cpt, a)
          /\ LET outras == Parseable(call.df, Len(call.df))
             IN  call.ret.rows =
                    verificar_todos(call.fc, outras, trb, call.tipo, call.relogio,
                                    call.anos).rows

\* a malformed deadline over a value that is active elsewhere, followed by a
\* column that does give its row
C6_Witness ==
    /\ IsScan /\ ~call.ret.raises
    /\ Len(call.df) = 2
    /\ ~StrptimeOk(call.df[1].cpt) /\ call.df[1].util = Cell("num", 96)
    /\ StrptimeOk(call.df[2].cpt) /\ call.df[2].util = Cell("num", 96)
    /\ Len(call.ret.rows) = 1
    /\ call.ret.rows[1].cpt = HorarioFmt(call.df[2].cpt, call.anos[1])

\* C7: a facility absent from a catalog that the evaluation consults gets
\* the "facility not found" verdict: validar_wip answers it for a facility
\* absent from wip_tempos, and a scan gives no row computed from a band put
\* in the place of a missing priority or expedite entry.
C7_ConfigMiss ==
    /\ (call.op = "validar_wip" /\ call.fc \notin DOMAIN wip_tempos) =>
          (~call.ret.raises /\ call.ret.status = <<NaoEncontrado>>)
    /\ (IsScan /\ ~call.ret.raises
           /\ (call.fc \notin DOMAIN trb.faixas_default
                 \/ call.fc \notin DOMAIN trb.faixas_priority
                 \/ call.fc \notin DOMAIN trb.faixas_expedite)) =>
          call.ret.rows = <<>>

\* the columns of df whose cell is not "any other text", in their order
RECURSIVE SemTexto(_, _)
SemTexto(df, n) ==
    IF n = 0 THEN <<>>
    ELSE IF df[n].util.k /= "text" THEN Append(SemTexto(df, n - 1), df[n])
    ELSE SemTexto(df, n - 1)

\* C8: a cell that is not a number (the infinite marker or any other text)
\* is passed over: the scan raises nothing, the column gives no row and the
\* rows of the scan are those of the other columns.
C8_NonNumeric ==
    IsScan =>
        /\ ~call.ret.raises
        /\ call.ret.rows =
              verificar_todos(call.fc, SemTexto(call.df, Len(call.df)), trb, call.tipo,
                              call.relogio, call.anos).rows

\* the verdict C10 expects for WIP w, reference ref and multipliers in tenths
C10_Expect(w, ref, tempos) ==
    IF ref <= 0 THEN "sem valor"
    ELSE IF ref * tempos.minima <= 10 * w /\ 10 * w <= ref * tempos.maxima THEN "dentro"
    ELSE IF 10 * w < ref * tempos.minima THEN "abaixo"
    ELSE "acima"

C10_Kind(st) ==
    CASE st.txt = "WIP dentro do intervalo" -> "dentro"
      [] st.txt = "WIP abaixo do minimo" -> "abaixo"
      [] st.txt = "WIP acima do maximo" -> "acima"
      [] st.txt \in {"Valor do Lagrange zerado", "Sem valor de OVERRIDE definido"} -> "sem valor"
      [] OTHER -> "outro"

\* C10: for a facility of the multiplier table and a WIP count, validar_wip
\* answers two verdicts, the one of the plan reference then the one of the
\* override, each decided by its own reference alone: within the band iff
\* ref*min <= WIP <= ref*max, below iff WIP < ref*min, above iff
\* WIP > ref*max, and "no value" with nothing divided for a reference <= 0;
\* WIP 1000 against plan 500 with (1.8, 2.2) is within the DEFAULT band.
C10_WipVerdicts ==
    (call.op = "validar_wip" /\ call.fc \in DOMAIN wip_tempos /\ ~call.wip.none) =>
        LET st == call.ret.status
            t == wip_tempos[call.fc]
        IN  /\ ~call.ret.raises
            /\ Len(st) = 2
            /\ st[1].nome = "DEFAULT" /\ st[2].nome = "OVERRIDE"
            /\ C10_Kind(st[1]) = C10_Expect(call.wip.v, call.lagrange, t)
            /\ C10_Kind(st[2]) = C10_Expect(call.wip.v, call.override, t)
            /\ (call.lagrange <= 0) => (st[1].divide_por = 0)
            /\ (call.override <= 0) => (st[2].divide_por = 0)
            /\ \A k \in 1..2 : C10_Kind(st[k]) \in {"abaixo", "acima"} => st[k].divide_por > 0
            /\ (call.wip.v = 1000 /\ call.lagrange = 500 /\ t = Tempos(18, 22)) =>
                  (st[1].txt = "WIP dentro do intervalo" /\ st[1].divide_por = 0)

\* WIP on the lower bound of the plan band and above the override band
C10_Witness ==
    /\ call.op = "validar_wip" /\ call.fc = "GRU5"
    /\ call.wip = Some(18) /\ call.lagrange = 10 /\ call.override = 5
    /\ call.ret.status[1].txt = "WIP dentro do intervalo"
    /\ call.ret.status[2].txt = "WIP acima do maximo"

\* C9: when the WIP of a run could not be read (None), the WIP comparison
\* gives an informational message and raises nothing, so that the run goes
\* on to the processing-rate check instead of ending in the handler of the
\* outer try.
C9_Independent ==
    \A i \in 1..Len(shown) :
        (shown[i].sec = "wip" /\ shown[i].kind = "metric" /\ shown[i].body[1].none) =>
            /\ i < Len(shown)
            /\ shown[i + 1].sec = "wip" /\ shown[i + 1].kind = "info"
            /\ pc /= "finally"
            /\ (pc = "done") => \E j \in 1..Len(shown) : shown[j].sec \in {"proc", "run"} /\ j > i + 1

\* the place of a WIP verdict in the order below < within < above
WipRank(st) ==
    IF st.txt = "WIP abaixo do minimo" THEN 0
    ELSE IF st.txt = "WIP dentro do intervalo" THEN 1
    ELSE 2

\* the noted call and the present one are two validations of the same
\* facility and references, the present one of a count at least as large
IsMonoPair ==
    /\ memo /= NoCall /\ memo.op = "validar_wip"
    /\ call /= NoCall /\ call.op = "validar_wip"
    /\ call.fc = memo.fc /\ call.fc \in DOMAIN wip_tempos
    /\ call.lagrange = memo.lagrange /\ call.override = memo.override
    /\ ~memo.wip.none /\ ~call.wip.none /\ memo.wip.v <= call.wip.v

\* C11: for a facility of the table and a positive reference count, the
\* verdict of a WIP count never comes earlier, in the order below < within <
\* above, than the verdict of a smaller or equal count.
C11_Monotone ==
    IsMonoPair =>
        /\ memo.lagrange > 0 => WipRank(memo.ret.status[1]) <= WipRank(call.ret.status[1])
        /\ memo.override > 0 => WipRank(memo.ret.status[2]) <= WipRank(call.ret.status[2])

\* GRU5 with reference 10 (band 17.6 to 22): 17 is below, 23 is above
C11_Witness ==
    /\ IsMonoPair
    /\ memo.fc = "GRU5" /\ memo.lagrange = 10
    /\ memo.wip.v = 17 /\ call.wip.v = 23
    /\ memo.ret.status[1].txt = "WIP abaixo do minimo"
    /\ call.ret.status[1].txt = "WIP acima do maximo"

IsProc == call /= NoCall /\ call.op = "validar_processamento"

Abs(x) == IF x < 0 THEN -x ELSE x

\* what the claim expects of the message m for the rate p and the reference r
C12_Expect(p, r, m) ==
    IF r <= 0
    THEN m.txt = "Sem valor valido" /\ m.divide_por = 0
    ELSE /\ (m.txt = "Processamento dentro do intervalo aceitavel") <=> (20 * Abs(p - r) <= r)
         /\ m.txt \in {"Processamento dentro do intervalo aceitavel",
                        "Processamento abaixo", "Processamento acima"}
         /\ (m.txt = "Processamento abaixo") => p < r
         /\ (m.txt = "Processamento acima") => p > r
         /\ (m.txt /= "Processamento dentro do intervalo aceitavel") =>
                /\ m.divide_por = r
                \* the printed percentage is 100 * |p - r| / r to the nearest tenth
                /\ 2 * Abs(m.perc10 * r - 1000 * Abs(p - r)) <= r

\* C12: validar_processamento judges each reference on its own: a reference
\* of zero or less gives the message "no valid value" and divides nothing; a
\* positive reference r gives "within" exactly when |rate - r| <= 5 % of r,
\* bounds included, and otherwise the deviation 100 * |rate - r| / r, "below"
\* when the rate is under r and "above" when it is over; the rate 120
\* against the reference 100 is "20.0 % above".
C12_Processamento ==
    IsProc =>
        /\ Len(call.ret) = 2
        /\ call.ret[1].nome = "Lagrange" /\ call.ret[2].nome = "Override"
        /\ C12_Expect(call.processamento, call.lagrange, call.ret[1])
        /\ C12_Expect(call.processamento, call.override, call.ret[2])
        /\ (call.processamento = 120 /\ call.lagrange = 100) =>
              (call.ret[1].txt = "Processamento acima" /\ call.ret[1].perc10 = 200)

\* the rate 105 is within the reference 100, at the bound, while the other
\* reference is not set
C12_Witness ==
    /\ IsProc
    /\ call.processamento = 105 /\ call.lagrange = 100 /\ call.override = 0
    /\ call.ret[1].txt = "Processamento dentro do intervalo aceitavel"
    /\ call.ret[2].txt = "Sem valor valido"

IsBuffer == call /= NoCall /\ call.op = "exibir_buffer"

\* C13: for a buffer reading of three numbers with minimum <= maximum,
\* exibir_buffer reports exactly one outcome: success exactly when
\* minimum <= current <= maximum, "below the minimum" exactly when the
\* current value is under the minimum (deviation taken of the minimum),
\* "above the maximum" exactly when it is over the maximum (deviation taken
\* of the maximum); 85 in the band (80, 90) is a success.
C13_Buffer ==
    (/\ IsBuffer
     /\ ~call.buffers.atual.none /\ ~call.buffers.minimo.none /\ ~call.buffers.maximo.none
     /\ call.buffers.minimo.v <= call.buffers.maximo.v) =>
        LET a == call.buffers.atual.v
            mn == call.buffers.minimo.v
            mx == call.buffers.maximo.v
        IN  /\ ~call.ret.raises
            /\ call.ret.txt \in {"Dentro dos limites aceitaveis", "abaixo do minimo",
                                  "acima do maximo"}
            /\ (call.ret.txt = "Dentro dos limites aceitaveis") <=> (mn <= a /\ a <= mx)
            /\ (call.ret.txt = "abaixo do minimo") <=> (a < mn)
            /\ (call.ret.txt = "acima do maximo") <=> (a > mx)
            /\ (call.ret.txt = "abaixo do minimo") => call.ret.contra = mn
            /\ (call.ret.txt = "acima do maximo") => call.ret.contra = mx
            /\ (call.ret.txt = "Dentro dos limites aceitaveis") => call.ret.contra = 0

IsBoth == call /= NoCall /\ call.op = "resultados_trb"

\* rows holds, in the order of the columns, one row for each of some columns
\* of df, each the row that column gives and tagged tipo
InColumnOrder(rows, f, df, t, tipo, relogio, anos) ==
    \E idx \in [1..Len(rows) -> 1..Len(df)] :
        /\ \A j, k \in 1..Len(rows) : j < k => idx[j] < idx[k]
        /\ \A j \in 1..Len(rows) :
              LET it == Iteracao(f, df[idx[j]], t, tipo, Leituras(relogio, df, idx[j]),
                                 AnosLidos(anos, df, idx[j]))
              IN  /\ ~ToFloat(df[idx[j]].util).nan
                  /\ it.emite
                  /\ rows[j] = it.linha
                  /\ rows[j].tipo = tipo

TableOf(tab) == IF tab.none THEN <<>> ELSE tab.df

\* C14: a scan returns at most one row for a column, the rows in the order
\* of the columns whatever their severity, each tagged with the grouping
\* the caller passed; the combined result of the main flow holds all the
\* Singles rows before all the Multis rows.
C14_Order ==
    /\ (IsScan /\ ~call.ret.raises) =>
          InColumnOrder(call.ret.rows, call.fc, call.df, trb, call.tipo, call.relogio,
                        call.anos)
    /\ (IsBoth /\ ~call.ret.raises) =>
          LET ns == NLeitTabela(TableOf(call.df_singles))
              as == 4 * (ns \div 3)
          IN  \E k \in 0..Len(call.ret.rows) :
                /\ InColumnOrder(SubSeq(call.ret.rows, 1, k), call.fc,
                                 TableOf(call.df_singles), trb, "Singles",
                                 SubSeq(call.relogio, 1, ns), SubSeq(call.anos, 1, as))
                /\ InColumnOrder(SubSeq(call.ret.rows, k + 1, Len(call.ret.rows)), call.fc,
                                 TableOf(call.df_multis), trb, "Multis",
                                 SubSeq(call.relogio, ns + 1, Len(call.relogio)),
                                 SubSeq(call.anos, as + 1, Len(call.anos)))

\* both tables give a row, Singles before Multis; the attention row of the
\* Singles column (92 within the band 90-95) stays before the active row of
\* the Multis column (96)
C14_Witness ==
    /\ IsBoth /\ ~call.ret.raises
    /\ Len(call.ret.rows) = 2
    /\ call.ret.rows[1].valor = 92 /\ call.ret.rows[1].msg = "ATENCAO"
    /\ call.ret.rows[1].tipo = "Singles"
    /\ call.ret.rows[2].valor = 96 /\ call.ret.rows[2].msg = "TRB ATIVO"
    /\ call.ret.rows[2].tipo = "Multis"

\* C15: the band catalogs, their lead times and the table of WIP
\* multipliers keep the values they were built with, whatever operations of
\* the engine (dentro_sla, check_status, verificar_todos, validar_wip,
\* validar_processamento, exibir_buffer) have been invoked, in whatever
\* order.
C15_Immutable ==
    /\ trb = TRB
    /\ wip_tempos = WipTempos

\* after a scan that looked up a facility the catalogs lack (GIG2 in the
\* priority and expedite catalogs) and returned a row
C15_Witness ==
    /\ IsScan /\ call.fc = "GIG2" /\ ~call.ret.raises
    /\ call.ret.rows /= <<>>
    /\ "GIG2" \notin DOMAIN trb.faixas_priority
    /\ trb = TRB /\ wip_tempos = WipTempos

\* the pending call repeats the noted one: same operation, same arguments
IsRepeat ==
    /\ memo /= NoCall /\ call /= NoCall
    /\ "agora" \in DOMAIN memo
    /\ Args(call) = Args(memo)

\* the two invocations were made at the same current time: the clock gave
\* the same time when each read it first (an operation that reads no clock
\* has no current time)
MesmoInicio ==
    memo.op \in {"dentro_sla", "verificar_todos"} =>
        /\ Len(call.relogio) = Len(memo.relogio)
        /\ memo.relogio /= <<>> => call.relogio[1] = memo.relogio[1]

VerdictsMemo(i) ==
    LET it == Iteracao(memo.fc, memo.df[i], trb, memo.tipo,
                       Leituras(memo.relogio, memo.df, i), AnosLidos(memo.anos, memo.df, i))
    IN  <<it.status_default, it.status_pri, it.status_expr>>

\* the time the noted dentro_sla call read had reached the deadline minus
\* the lead time
Atingido ==
    /\ IsRepeat /\ memo.op = "dentro_sla" /\ StrptimeOk(memo.cpt)
    /\ memo.relogio[1] >= HoraCpt(memo.cpt, memo.anos[1]) - memo.horas

\* the noted scan gave the three categories of its column i FORA_SLA
Suprimida(i) ==
    /\ IsNum(memo.df[i])
    /\ VerdictsMemo(i) = <<"FORA_SLA", "FORA_SLA", "FORA_SLA">>

\* C17 as stated: once the clock has reached the deadline minus the lead
\* time, the category is FORA_SLA (dentro_sla answers False) then and at
\* every later time, after the deadline too; so a column whose deadline is
\* not in the future gives no row, and a column whose three categories are
\* FORA_SLA at one time gives no row at any later time.
C17_Stated ==
    /\ Atingido => (memo.ret = FALSE /\ call.ret = FALSE)
    /\ (IsScan /\ ~call.ret.raises) =>
          \A i \in 1..Len(call.df) :
             (IsNum(call.df[i]) /\ StrptimeOk(call.df[i].cpt)
                /\ HoraCpt(call.df[i].cpt, Ano(Inicio)) <= Inicio) =>
                   RowsOf(call.df[i]) = {}
    /\ (IsRepeat /\ memo.op = "verificar_todos" /\ ~memo.ret.raises) =>
          \A i \in 1..Len(memo.df) : Suprimida(i) => RowsOf(call.df[i]) = {}

\* every year the invocation c read is the year ano
AnoDe(c, ano) == \A k \in 1..Len(c.anos) : c.anos[k] = ano

\* C17 amended: while the year the clock gives stays the same, suppression
\* is permanent. A category that is FORA_SLA at one time (dentro_sla
\* answers False, the clock having reached the deadline minus the lead
\* time) is FORA_SLA at every later time at which datetime.now().year is
\* still the year read the first time; a column whose deadline, in the year
\* of the scan, is not after the start of the scan gives no row when the
\* year does not change during the scan; and a column whose three
\* categories are FORA_SLA in one scan gives no row in a later scan that
\* reads the same year as the first did.
C17_Permanent ==
    /\ (Atingido /\ call.anos = memo.anos) =>
          (call.relogio[1] >= memo.relogio[1] /\ memo.ret = FALSE /\ call.ret = FALSE)
    /\ (IsScan /\ ~call.ret.raises /\ AnoDe(call, Ano(Inicio))) =>
          \A i \in 1..Len(call.df) :
             (IsNum(call.df[i]) /\ StrptimeOk(call.df[i].cpt)
                /\ HoraCpt(call.df[i].cpt, Ano(Inicio)) <= Inicio) =>
                   RowsOf(call.df[i]) = {}
    /\ (IsRepeat /\ memo.op = "verificar_todos" /\ ~memo.ret.raises
           /\ \E ano \in Anos : AnoDe(memo, ano) /\ AnoDe(call, ano)) =>
          \A i \in 1..Len(memo.df) :
             Suprimida(i) => (now >= memo.agora /\ RowsOf(call.df[i]) = {})

\* GRU5 (lead times 1.5 h, 2 h, 2.25 h) and the deadline 06:00: at 05:50 the
\* three categories of the column are FORA_SLA and the scan gives no row;
\* at 06:40 of the same year, after the deadline, the same scan gives none
\* either
C17_Witness ==
    /\ IsRepeat /\ memo.op = "verificar_todos" /\ memo.fc = "GRU5"
    /\ memo.df = <<[cpt |-> H0600, util |-> Cell("num", 96)]>>
    /\ memo.relogio = <<350, 350, 350>> /\ call.relogio = <<400, 400, 400>>
    /\ AnoDe(memo, AnoInicial) /\ AnoDe(call, AnoInicial)
    /\ Suprimida(1)
    /\ memo.ret.rows = <<>> /\ call.ret.rows = <<>>

\* the lead times of the three categories of the scanned facility, in the
\* order of Verdicts
Horas ==
    <<GetFaixa(trb.faixas_default, call.fc).horas,
      GetFaixa(trb.faixas_priority, call.fc).horas,
      GetFaixa(trb.faixas_expedite, call.fc).horas>>

MaxHoras ==
    CHOOSE h \in {Horas[1], Horas[2], Horas[3]} :
        \A k \in 1..3 : Horas[k] <= h

\* C18: in a scanned column, when the category of lead time L is evaluated
\* (not FORA_SLA), every category of the facility whose lead time is at most
\* L is evaluated too; so a column gives an ATTENTION row only in a scan
\* started before its deadline minus the largest of the three lead times.
C18_Nested ==
    (IsScan /\ ~call.ret.raises) =>
        \A i \in 1..Len(call.df) :
            IsNum(call.df[i]) =>
                /\ \A a, b \in 1..3 :
                      (Horas[b] <= Horas[a] /\ Verdicts(i)[a] /= "FORA_SLA") =>
                          Verdicts(i)[b] /= "FORA_SLA"
                /\ \A j \in RowsOf(call.df[i]) :
                      call.ret.rows[j].msg = "ATENCAO" =>
                          /\ StrptimeOk(call.df[i].cpt)
                          /\ Inicio < HoraCpt(call.df[i].cpt, Ano(Inicio)) - MaxHoras

\* the run was refused for an empty username or PIN
SemCredenciais ==
    \E i \in 1..Len(shown) : shown[i] = Item("entrar", "error", "preencha Username e PIN")

\* configurar_navegador raised
SemNavegador ==
    \E i \in 1..Len(shown) : shown[i] = Item("entrar", "exception", "configurar_navegador")

\* the steps that are handed the driver
UsaDriver == pc \in {"login", "wip", "proc", "tw", "rebin", "trb", "finally"}

\* C19 as stated: with an empty username or PIN no driver is created; with
\* both given exactly one driver is created and it is quit, whichever step
\* fails; no step uses the driver after it was quit.
C19_Stated ==
    /\ SemCredenciais => driver = "none"
    /\ UsaDriver => driver = "open"
    /\ driver = "quit" => pc = "done"
    /\ (pc = "done" /\ ~SemCredenciais) => driver = "quit"

C19_Safe ==
    /\ SemCredenciais => driver = "none"
    /\ UsaDriver => driver = "open"
    /\ driver = "quit" => pc = "done"
    /\ pc = "done" => driver \in {"none", "quit"}
    /\ (pc = "done" /\ driver = "none") => (SemCredenciais \/ SemNavegador)
    /\ SemNavegador => (driver = "none" /\ pc = "done")

\* the driver changes twice at most: created by the button, quit once
C19_Step ==
    driver' /= driver =>
        \/ driver = "none" /\ driver' = "open" /\ pc = "idle"
        \/ driver = "open" /\ driver' = "quit" /\ pc = "finally"

\* C19: in one run of the button no driver is created when the username or
\* the PIN is empty; when both are given the browser is started once, and
\* if it starts the one driver is quit exactly once, in the end, whichever
\* step failed or succeeded, and no step uses it after that; if the browser
\* does not start there is no driver and nothing is quit.
C19_Lifecycle ==
    /\ []C19_Safe
    /\ [][C19_Step]_vars
    /\ (driver = "open") ~> (driver = "quit")

\* a run whose login or extraction failed, over, with its driver quit
C19_Witness ==
    /\ pc = "done" /\ driver = "quit"
    /\ \E i \in 1..Len(shown) : shown[i] = ErroGeral

====
